---- MODULE Spec2Model ----
(***************************************************************************)
(* A model of the credit approval service (Django app "credit"):           *)
(*   services.py  - the scoring and eligibility engine (pure functions     *)
(*                  over the persisted customers and loans),               *)
(*   views.py     - the request handlers register_customer,                *)
(*                  check_eligibility and create_loan,                     *)
(*   tasks.py     - the background ingestion task and its reconciliation   *)
(*                  pass, enqueued by the ingest_initial_data command.     *)
(*                                                                         *)
(* Python floats are modelled as exact rationals <<n, d>> (d > 0, lowest   *)
(* terms); Python ints as TLA+ integers.  None is the empty tuple <<>> and *)
(* a present optional value v is <<v>>.  Dates are month indices: month 0  *)
(* is January of year 0, so the calendar year of date d is d \div 12.      *)
(***************************************************************************)
EXTENDS Integers, Sequences, FiniteSets, TLC

VARIABLES
    customers,      \* Customer table: customer_id -> row
    loans,          \* Loan table: loan_id -> row
    today,          \* the clock read by date.today()
    customer_file,  \* customer_data.xlsx: <<>> when missing, else <<rows>>
    loan_file,      \* loan_data.xlsx: <<>> when missing, else <<rows>>
    queue,          \* ingest_initial_data tasks enqueued and not yet started
    task,           \* per worker: the ingestion execution it is running
    last_pass,      \* history: the tables as the last finished reconciliation left them
    resp            \* history: what the last request handler or function call returned

vars == <<customers, loans, today, customer_file, loan_file, queue, task,
          last_pass, resp>>

(***************************************************************************)
(* Float arithmetic, as exact rationals.                                   *)
(***************************************************************************)
Abs(x) == IF x < 0 THEN -x ELSE x

RECURSIVE Gcd(_, _)
Gcd(a, b) == IF b = 0 THEN a ELSE Gcd(b, a % b)

\* the rational n/d in lowest terms with a positive denominator (d # 0)
Q(n, d) ==
    LET g == Gcd(Abs(n), Abs(d))
        s == IF d < 0 THEN -1 ELSE 1
    IN  <<(s * n) \div g, (s * d) \div g>>

F(i) == <<i, 1>>

FAdd(a, b) ==
    LET g == Gcd(a[2], b[2])
    IN  Q(a[1] * (b[2] \div g) + b[1] * (a[2] \div g), (a[2] \div g) * b[2])

FMul(a, b) ==
    LET x == Q(a[1], b[2])
        y == Q(b[1], a[2])
    IN  <<x[1] * y[1], x[2] * y[2]>>

\* a / b for b # 0
FDiv(a, b) == FMul(a, Q(b[2], b[1]))

FLt(a, b) == a[1] * b[2] < b[1] * a[2]

FMin(a, b) == IF FLt(b, a) THEN b ELSE a

\* int(x): truncation toward zero
FInt(a) == IF a[1] >= 0 THEN a[1] \div a[2] ELSE -((-a[1]) \div a[2])

RECURSIVE FPow(_, _)
\* a ** n for an integer n >= 1
FPow(a, n) == IF n = 1 THEN a ELSE FMul(a, FPow(a, n - 1))

RECURSIVE FSum(_, _)
\* the sum of f[x] over x in S (rationals)
FSum(f, S) ==
    IF S = {} THEN F(0)
    ELSE LET x == CHOOSE y \in S : TRUE
         IN  FAdd(f[x], FSum(f, S \ {x}))

RECURSIVE ISum(_, _)
\* the sum of f[x] over x in S (integers)
ISum(f, S) ==
    IF S = {} THEN 0
    ELSE LET x == CHOOSE y \in S : TRUE
         IN  f[x] + ISum(f, S \ {x})

Min(a, b) == IF b < a THEN b ELSE a

None == <<>>
Some(v) == <<v>>

Year(d) == d \div 12

(***************************************************************************)
(* services.py                                                             *)
(***************************************************************************)
LAKH == 100000

\* Python 3 round(): to the nearest integer, ties to the even one
PyRound(q) ==
    LET fl  == q[1] \div q[2]
        rem == FAdd(q, F(-fl))
        half == Q(1, 2)
    IN  IF FLt(rem, half) THEN fl
        ELSE IF FLt(half, rem) THEN fl + 1
        ELSE IF fl % 2 = 0 THEN fl ELSE fl + 1

round_to_lakh(value) == PyRound(Q(value, LAKH)) * LAKH

\* the ZeroDivisionError of calculate_emi: factor - 1 = 0 with a nonzero rate
EmiRaises(principal, annual_rate, tenure_months) ==
    LET monthly_rate == FDiv(FDiv(annual_rate, F(100)), F(12))
    IN  /\ tenure_months > 0
        /\ monthly_rate # F(0)
        /\ FPow(FAdd(F(1), monthly_rate), tenure_months) = F(1)

\* the value calculate_emi returns when it does not raise
calculate_emi(principal, annual_rate, tenure_months) ==
    IF tenure_months <= 0 THEN F(0)
    ELSE LET monthly_rate == FDiv(FDiv(annual_rate, F(100)), F(12))
         IN  IF monthly_rate = F(0) THEN FDiv(principal, F(tenure_months))
             ELSE LET factor == FPow(FAdd(F(1), monthly_rate), tenure_months)
                  IN  FDiv(FMul(FMul(principal, monthly_rate), factor),
                           FAdd(factor, F(-1)))

LoansOf(c) == {l \in DOMAIN loans : loans[l].customer = c}

\* the loans of customer c in table L that are current on day d
CurrentLoans(L, d, c) ==
    {l \in DOMAIN L :
        /\ L[l].customer = c
        /\ (L[l].end_date = None \/ L[l].end_date[1] >= d)}

EmiSum(L, d, c) ==
    FSum([l \in CurrentLoans(L, d, c) |-> L[l].monthly_repayment],
         CurrentLoans(L, d, c))

DebtSum(L, d, c) ==
    FSum([l \in CurrentLoans(L, d, c) |-> L[l].loan_amount], CurrentLoans(L, d, c))

get_current_loans(c) == CurrentLoans(loans, today, c)

get_current_emi_sum(c) == EmiSum(loans, today, c)

\* mutant of get_current_debt_sum: the cached field is trusted
get_current_debt_sum_Cached(c) == F(customers[c].current_debt)

get_current_debt_sum(c) == DebtSum(loans, today, c)

\* mutant of ExceedsLimit: the debt gate never closes
ExceedsLimit_Off(current_debt, approved_limit) == FALSE

\* services.py 51: the hard gate on current outstanding debt
ExceedsLimit(current_debt, approved_limit) == FLt(F(approved_limit), current_debt)

\* mutant of OnTimeRatio: a history without installments counts as perfect
OnTimeRatio_DefaultOne(paid_on_time, total_emis) ==
    IF total_emis > 0 THEN FMin(Q(paid_on_time, total_emis), F(1)) ELSE F(1)

\* services.py 56
OnTimeRatio(paid_on_time, total_emis) ==
    IF total_emis > 0 THEN FMin(Q(paid_on_time, total_emis), F(1)) ELSE F(0)

\* services.py 69
ClampScore(score) == Min(FInt(score), 100)

compute_credit_score(c) ==
    LET ls == LoansOf(c)
        total_loans == Cardinality(ls)
        current_debt == get_current_debt_sum(c)
    IN  IF ExceedsLimit(current_debt, customers[c].approved_limit) THEN 0
        ELSE
        LET total_emis == ISum([l \in ls |-> loans[l].tenure], ls)
            paid_on_time == ISum([l \in ls |-> loans[l].emis_paid_on_time], ls)
            on_time_ratio == OnTimeRatio(paid_on_time, total_emis)
            loan_count_score == FMul(Q(Min(total_loans, 10), 10), F(15))
            current_year == Year(today)
            current_year_loans ==
                Cardinality({l \in ls : /\ loans[l].start_date # None
                                        /\ Year(loans[l].start_date[1]) = current_year})
            current_year_score == FMul(Q(Min(current_year_loans, 5), 5), F(15))
            approved_limit == IF customers[c].approved_limit = 0 THEN 1
                              ELSE customers[c].approved_limit
            total_volume == FSum([l \in ls |-> loans[l].loan_amount], ls)
            volume_score == FMul(FMin(FDiv(total_volume, F(approved_limit)), F(1)),
                                 F(20))
            score == FAdd(FAdd(FAdd(FMul(on_time_ratio, F(50)), loan_count_score),
                               current_year_score), volume_score)
        IN  ClampScore(score)

\* mutant of minimum_rate_for_score: the tier boundaries are off by one
minimum_rate_for_score_Inclusive(score) ==
    IF score >= 50 THEN Some(F(0))
    ELSE IF 30 <= score /\ score < 50 THEN Some(F(12))
    ELSE IF 10 <= score /\ score < 30 THEN Some(F(16))
    ELSE None

minimum_rate_for_score(score) ==
    IF score > 50 THEN Some(F(0))
    ELSE IF 30 < score /\ score <= 50 THEN Some(F(12))
    ELSE IF 10 < score /\ score <= 30 THEN Some(F(16))
    ELSE None

\* services.py 94 and 108: the request asks for less than a positive tier minimum
BelowMinimum(min_rate, interest_rate) ==
    FLt(F(0), min_rate) /\ FLt(interest_rate, min_rate)

\* mutant of CorrectedRate: the requested rate is never corrected
CorrectedRate_Uncorrected(min_rate, interest_rate) == interest_rate

\* services.py 85 and 94-95: the rate the new loan is priced at
CorrectedRate(min_rate, interest_rate) ==
    IF BelowMinimum(min_rate, interest_rate) THEN min_rate ELSE interest_rate

\* mutant of RejectCorrected: a corrected request passing the EMI check is approved
RejectCorrected_Dropped(min_rate, interest_rate) == FALSE

\* services.py 108-113: a request that had to be corrected is rejected
RejectCorrected(min_rate, interest_rate) == BelowMinimum(min_rate, interest_rate)

\* services.py 101
OverEmiLimit(current_emi_sum, new_emi, emi_limit) ==
    FLt(emi_limit, FAdd(current_emi_sum, new_emi))

\* raised: the call ends in calculate_emi's ZeroDivisionError, no dict is returned
evaluate_eligibility(c, loan_amount, interest_rate, tenure) ==
    LET score == compute_credit_score(c)
        min_rate == minimum_rate_for_score(score)
    IN  IF min_rate = None
        THEN [raised |-> FALSE, score |-> score, approved |-> FALSE,
              corrected_rate |-> interest_rate]
        ELSE
        LET corrected_rate == CorrectedRate(min_rate[1], interest_rate)
            Result(ok) == [raised |-> FALSE, score |-> score, approved |-> ok,
                           corrected_rate |-> corrected_rate]
        IN  IF EmiRaises(loan_amount, corrected_rate, tenure)
            THEN [raised |-> TRUE, score |-> score, approved |-> FALSE,
                  corrected_rate |-> corrected_rate]
            ELSE
            LET current_emi_sum == get_current_emi_sum(c)
                new_emi == calculate_emi(loan_amount, corrected_rate, tenure)
                emi_limit == FMul(Q(1, 2), F(customers[c].monthly_salary))
            IN  IF OverEmiLimit(current_emi_sum, new_emi, emi_limit)
                THEN Result(FALSE)
                ELSE IF RejectCorrected(min_rate[1], interest_rate)
                THEN Result(FALSE)
                ELSE Result(TRUE)

(***************************************************************************)
(* Inputs.                                                                 *)
(***************************************************************************)
\* the worker processes that execute queued tasks
Workers == {"w1"}

\* pc: idle, customers (row i is next), loans (row i is next), reconcile (the
\* customers in todo are left).  today0 and interfered are history: the day the
\* reconciliation pass began, and whether another execution wrote rows during it.
IdleTask == [pc |-> "idle", i |-> 0, todo |-> {}, today0 |-> 0, interfered |-> FALSE]

\* request bodies of check_eligibility and create_loan
Amounts == {F(-6000), F(6000), F(60000)}
Rates == {F(-2400), F(0), F(12), F(16)}
Tenures == {-1, 0, 1, 2}

NoResp == [op |-> "none"]

(***************************************************************************)
(* The service: request handlers (views.py), the ingestion command and     *)
(* task (management/commands/ingest_initial_data.py, tasks.py), the clock. *)
(***************************************************************************)
MaxCustomers == 2
MaxLoans == 2
MaxQueue == 1
MaxToday == 1

\* request bodies the handlers are driven with
Incomes == {12500}
ApiAmounts == {F(6000)}
ApiRates == {F(16)}
ApiTenures == {-1, 2}

\* the spreadsheets: a customer sheet holding a stale current_debt, a loan sheet
\* with a running loan of customer 1 (fractional principal, no installment
\* given) and a loan of a customer the sheet does not list
CustomerSheets ==
    {<<[customer_id |-> Some(1), monthly_salary |-> 20000,
        approved_limit |-> 60000, current_debt |-> 999]>>}

LoanSheets ==
    {<<[loan_id |-> 1, customer_id |-> Some(1), loan_amount |-> Q(12001, 2),
        tenure |-> 2, interest_rate |-> F(0), monthly_repayment |-> F(0),
        emis_paid_on_time |-> 2, start_date |-> Some(-2), end_date |-> Some(0)],
       [loan_id |-> 2, customer_id |-> Some(2), loan_amount |-> F(6000),
        tenure |-> 2, interest_rate |-> F(12), monthly_repayment |-> F(3045),
        emis_paid_on_time |-> 1, start_date |-> None, end_date |-> None]>>}

Init ==
    /\ customers = <<>>
    /\ loans = <<>>
    /\ today = 0
    /\ customer_file \in {Some(f) : f \in CustomerSheets}
    /\ loan_file \in {Some(f) : f \in LoanSheets}
    /\ queue = 0
    /\ task = [w \in Workers |-> IdleTask]
    /\ last_pass = None
    /\ resp = NoResp

\* the key an AutoField gives a new row
NextId(table) ==
    IF DOMAIN table = {} THEN 1
    ELSE 1 + CHOOSE m \in DOMAIN table : \A k \in DOMAIN table : k <= m

\* objects.create and update_or_create: the table with row r under key k
Put(table, k, r) ==
    [x \in DOMAIN table \cup {k} |-> IF x = k THEN r ELSE table[x]]

\* views.py register_customer
register_customer(monthly_income) ==
    /\ Cardinality(DOMAIN customers) < MaxCustomers
    /\ LET id == NextId(customers)
           approved_limit == round_to_lakh(36 * monthly_income)
       IN  /\ customers' = Put(customers, id,
                [monthly_salary |-> monthly_income,
                 approved_limit |-> approved_limit, current_debt |-> 0])
           /\ resp' = [op |-> "register_customer", status |-> 201,
                       customer_id |-> id, approved_limit |-> approved_limit]
    /\ UNCHANGED <<loans, today, customer_file, loan_file, queue, task, last_pass>>

\* views.py 107-109 and 142-144: the handler fails when the evaluation or its own
\* call of calculate_emi raises
HandlerRaises(evaluation, loan_amount, tenure) ==
    \/ evaluation.raised
    \/ EmiRaises(loan_amount, evaluation.corrected_rate, tenure)

\* views.py check_eligibility
check_eligibility(c, loan_amount, interest_rate, tenure) ==
    /\ \E evaluation \in {evaluate_eligibility(c, loan_amount, interest_rate, tenure)} :
         resp' =
             IF HandlerRaises(evaluation, loan_amount, tenure)
             THEN [op |-> "check_eligibility", status |-> 500, customer_id |-> c]
             ELSE [op |-> "check_eligibility", status |-> 200, customer_id |-> c,
                   approval |-> evaluation.approved,
                   corrected_interest_rate |-> evaluation.corrected_rate]
    /\ UNCHANGED <<customers, loans, today, customer_file, loan_file, queue, task,
                   last_pass>>

\* mutant of RefreshedDebt: expired loans are counted too
RefreshedDebt_AllLoans(L, c) ==
    FInt(FSum([l \in {k \in DOMAIN L : L[k].customer = c} |-> L[l].loan_amount],
              {k \in DOMAIN L : L[k].customer = c}))

\* mutant of RefreshedDebt: the sum is added to the cached value
RefreshedDebt_Added(L, c) == customers[c].current_debt + FInt(DebtSum(L, today, c))

\* views.py 171 and tasks.py 86: the cached debt of c computed from loan table L
RefreshedDebt(L, c) == FInt(DebtSum(L, today, c))

\* views.py create_loan
create_loan(c, loan_amount, interest_rate, tenure) ==
    \E evaluation \in {evaluate_eligibility(c, loan_amount, interest_rate, tenure)} :
    LET monthly_installment ==
            calculate_emi(loan_amount, evaluation.corrected_rate, tenure)
        id == NextId(loans)
        created == Put(loans, id,
                     [customer |-> c, loan_amount |-> loan_amount,
                      tenure |-> tenure,
                      interest_rate |-> evaluation.corrected_rate,
                      monthly_repayment |-> monthly_installment,
                      emis_paid_on_time |-> 0,
                      start_date |-> Some(today),
                      end_date |-> Some(today + tenure)])
    IN  /\ UNCHANGED <<today, customer_file, loan_file, queue, task, last_pass>>
        /\ IF HandlerRaises(evaluation, loan_amount, tenure)
           THEN /\ resp' = [op |-> "create_loan", status |-> 500, customer_id |-> c]
                /\ UNCHANGED <<customers, loans>>
           ELSE IF ~evaluation.approved
           THEN /\ resp' = [op |-> "create_loan", status |-> 200, customer_id |-> c,
                            loan_id |-> None, loan_approved |-> FALSE]
                /\ UNCHANGED <<customers, loans>>
           ELSE /\ Cardinality(DOMAIN loans) < MaxLoans
                /\ loans' = created
                /\ customers' =
                     [customers EXCEPT ![c].current_debt = RefreshedDebt(created, c)]
                /\ resp' = [op |-> "create_loan", status |-> 201, customer_id |-> c,
                            loan_id |-> Some(id), loan_approved |-> TRUE]

\* management/commands/ingest_initial_data.py: handle
enqueue_ingestion ==
    /\ queue < MaxQueue
    /\ queue' = queue + 1
    /\ UNCHANGED <<customers, loans, today, customer_file, loan_file, task,
                   last_pass, resp>>

Rows(file) == IF file = None THEN <<>> ELSE file[1]

\* where an execution stands once the rows before row i of `phase` are done,
\* cs being the customer table at that moment (tasks.py 30-32, 48-50, 85)
Position(phase, i, cs) ==
    IF phase = "customers" /\ i <= Len(Rows(customer_file))
    THEN [IdleTask EXCEPT !.pc = "customers", !.i = i]
    ELSE LET j == IF phase = "loans" THEN i ELSE 1
         IN  IF j <= Len(Rows(loan_file))
             THEN [IdleTask EXCEPT !.pc = "loans", !.i = j]
             ELSE [IdleTask EXCEPT !.pc = "reconcile", !.todo = DOMAIN cs,
                                   !.today0 = today]

\* the executions after worker w moved to position p; with wrote, w has written
\* rows that another execution's running reconciliation pass may have read
Moved(w, p, wrote) ==
    [v \in DOMAIN task |->
        IF v = w THEN p
        ELSE IF wrote /\ task[v].pc = "reconcile"
        THEN [task[v] EXCEPT !.interfered = TRUE]
        ELSE task[v]]

\* a worker takes ingest_initial_data off the queue (tasks.py 26-32)
start_ingestion(w) ==
    /\ queue > 0
    /\ task[w].pc = "idle"
    /\ queue' = queue - 1
    /\ task' = Moved(w, Position("customers", 1, customers), FALSE)
    /\ UNCHANGED <<customers, loans, today, customer_file, loan_file, last_pass,
                   resp>>

\* tasks.py 33-47: one row of the customer sheet
ingest_customer_row(w) ==
    /\ task[w].pc = "customers"
    /\ LET row == Rows(customer_file)[task[w].i]
       IN  /\ customers' =
                IF row.customer_id = None THEN customers
                ELSE Put(customers, row.customer_id[1],
                         [monthly_salary |-> row.monthly_salary,
                          approved_limit |-> row.approved_limit,
                          current_debt |-> row.current_debt])
           /\ task' = Moved(w, Position("customers", task[w].i + 1, customers'),
                            row.customer_id # None)
    /\ UNCHANGED <<loans, today, customer_file, loan_file, queue, last_pass, resp>>

\* tasks.py 63-67: the installment stored for a row
RowRepayment(row) ==
    IF row.monthly_repayment = F(0) /\ row.loan_amount # F(0) /\ row.tenure # 0
    THEN calculate_emi(row.loan_amount, row.interest_rate, row.tenure)
    ELSE row.monthly_repayment

\* tasks.py 51-83: one row of the loan sheet; an exception of calculate_emi ends
\* the execution before its reconciliation pass
ingest_loan_row(w) ==
    /\ task[w].pc = "loans"
    /\ LET row == Rows(loan_file)[task[w].i]
           skip == \/ row.customer_id = None
                   \/ row.customer_id[1] \notin DOMAIN customers
           raises == /\ ~skip
                     /\ row.monthly_repayment = F(0)
                     /\ row.loan_amount # F(0)
                     /\ row.tenure # 0
                     /\ EmiRaises(row.loan_amount, row.interest_rate, row.tenure)
       IN  /\ loans' =
                IF skip \/ raises THEN loans
                ELSE Put(loans, row.loan_id,
                         [customer |-> row.customer_id[1],
                          loan_amount |-> row.loan_amount,
                          tenure |-> row.tenure,
                          interest_rate |-> row.interest_rate,
                          monthly_repayment |-> RowRepayment(row),
                          emis_paid_on_time |-> row.emis_paid_on_time,
                          start_date |-> row.start_date,
                          end_date |-> row.end_date])
           /\ task' = Moved(w, IF raises THEN IdleTask
                               ELSE Position("loans", task[w].i + 1, customers),
                            ~skip /\ ~raises)
    /\ UNCHANGED <<customers, today, customer_file, loan_file, queue, last_pass,
                   resp>>

\* tasks.py 86-87: the reconciliation pass refreshes one customer
reconcile_customer(w) ==
    /\ task[w].pc = "reconcile"
    /\ task[w].todo # {}
    /\ LET c == CHOOSE m \in task[w].todo : \A k \in task[w].todo : m <= k
       IN  /\ customers' =
                [customers EXCEPT ![c].current_debt = RefreshedDebt(loans, c)]
           /\ task' = Moved(w, [task[w] EXCEPT !.todo = task[w].todo \ {c}], FALSE)
    /\ UNCHANGED <<loans, today, customer_file, loan_file, queue, last_pass, resp>>

\* the pass of execution w ran on one day with no other execution writing rows
CleanPass(w) == ~task[w].interfered /\ task[w].today0 = today

\* tasks.py 85-87: the loop is over and the task returns
finish_ingestion(w) ==
    /\ task[w].pc = "reconcile"
    /\ task[w].todo = {}
    /\ task' = Moved(w, IdleTask, FALSE)
    /\ last_pass' = Some([debts |-> [c \in DOMAIN customers |->
                                        customers[c].current_debt],
                          loans |-> loans, today |-> today,
                          clean |-> CleanPass(w)])
    /\ UNCHANGED <<customers, loans, today, customer_file, loan_file, queue, resp>>

\* date.today() moves on
tick ==
    /\ today < MaxToday
    /\ today' = today + 1
    /\ UNCHANGED <<customers, loans, customer_file, loan_file, queue, task,
                   last_pass, resp>>

Next ==
    \/ \E m \in Incomes : register_customer(m)
    \/ \E c \in DOMAIN customers, a \in ApiAmounts, r \in ApiRates, t \in ApiTenures :
        check_eligibility(c, a, r, t)
    \/ \E c \in DOMAIN customers, a \in ApiAmounts, r \in ApiRates, t \in ApiTenures :
        create_loan(c, a, r, t)
    \/ enqueue_ingestion
    \/ \E w \in DOMAIN task :
        \/ start_ingestion(w)
        \/ ingest_customer_row(w)
        \/ ingest_loan_row(w)
        \/ reconcile_customer(w)
        \/ finish_ingestion(w)
    \/ tick

Spec == Init /\ [][Next]_vars

(***************************************************************************)
(* The engine on its own: a persisted customer with a loan history drawn   *)
(* from bounded sets, and one call of an engine function applied to it.    *)
(***************************************************************************)
MaxHist == 2

Salaries == {6100, 20000}
Limits == {0, 60000}
HistAmounts == {F(-60000), F(6000), F(60000)}
HistPaid == {0, 2}
\* <<start_date, end_date>>: repaid in the past, running, open-ended
HistDates == {<<Some(-14), Some(-2)>>, <<Some(0), Some(2)>>, <<None, None>>}

HistLoans ==
    {[customer |-> 1, loan_amount |-> a, tenure |-> 2, interest_rate |-> F(0),
      monthly_repayment |-> calculate_emi(a, F(0), 2), emis_paid_on_time |-> p,
      start_date |-> d[1], end_date |-> d[2]] :
        a \in HistAmounts, p \in HistPaid, d \in HistDates}

EngineInit ==
    /\ \E s \in Salaries, l \in Limits :
        customers = [c \in {1} |->
            [monthly_salary |-> s, approved_limit |-> l, current_debt |-> 0]]
    /\ \E n \in 0..MaxHist : loans \in [1..n -> HistLoans]
    /\ today = 0
    /\ customer_file = None
    /\ loan_file = None
    /\ queue = 0
    /\ task = [w \in Workers |-> IdleTask]
    /\ last_pass = None
    /\ resp = NoResp

\* compute_credit_score applied to a persisted customer
Score(c) ==
    /\ resp = NoResp
    /\ resp' = [op |-> "compute_credit_score", customer |-> c,
                score |-> compute_credit_score(c)]
    /\ UNCHANGED <<customers, loans, today, customer_file, loan_file, queue, task,
                   last_pass>>

\* evaluate_eligibility applied to a persisted customer and a request
Evaluate(c, a, r, t) ==
    /\ resp = NoResp
    /\ resp' = [op |-> "evaluate_eligibility", customer |-> c, loan_amount |-> a,
                interest_rate |-> r, tenure |-> t,
                result |-> evaluate_eligibility(c, a, r, t)]
    /\ UNCHANGED <<customers, loans, today, customer_file, loan_file, queue, task,
                   last_pass>>

EngineNext ==
    \/ \E c \in DOMAIN customers : Score(c)
    \/ \E c \in DOMAIN customers, a \in Amounts, r \in Rates, t \in Tenures :
        Evaluate(c, a, r, t)

SpecEngine == EngineInit /\ [][EngineNext]_vars

(***************************************************************************)
(* The engine and a cache that goes stale: after a call of an engine       *)
(* function the customer's cached current_debt is overwritten, as by a     *)
(* customer row of the sheet (tasks.py 45) or by a refresh that never ran  *)
(* (views.py 160-172), with the loan records left as they are.             *)
(***************************************************************************)
StaleDebts == {999, 70000}

\* the cached current_debt of c takes a value the loan records do not back
StaleCache(c, d) ==
    /\ resp # NoResp
    /\ customers[c].current_debt = 0
    /\ customers' = [customers EXCEPT ![c].current_debt = d]
    /\ UNCHANGED <<loans, today, customer_file, loan_file, queue, task, last_pass,
                   resp>>

CacheNext ==
    \/ \E c \in DOMAIN customers : Score(c)
    \/ \E c \in DOMAIN customers, a \in Amounts, r \in Rates, t \in Tenures :
        Evaluate(c, a, r, t)
    \/ \E c \in DOMAIN customers, d \in StaleDebts : StaleCache(c, d)

SpecCache == EngineInit /\ [][CacheNext]_vars

(***************************************************************************)
(* Ingestion on a worker pool: the command enqueues the task as often as   *)
(* it is run, and every idle worker process takes a queued task.           *)
(***************************************************************************)
\* the processes of a worker that executes tasks concurrently
PoolWorkers == {"w1", "w2"}

PoolInit ==
    /\ customers = <<>>
    /\ loans = <<>>
    /\ today = 0
    /\ customer_file \in {Some(f) : f \in CustomerSheets}
    /\ loan_file \in {Some(f) : f \in LoanSheets}
    /\ queue = 0
    /\ task = [w \in PoolWorkers |-> IdleTask]
    /\ last_pass = None
    /\ resp = NoResp

PoolNext ==
    \/ enqueue_ingestion
    \/ \E w \in DOMAIN task :
        \/ start_ingestion(w)
        \/ ingest_customer_row(w)
        \/ ingest_loan_row(w)
        \/ reconcile_customer(w)
        \/ finish_ingestion(w)

SpecPool == PoolInit /\ [][PoolNext]_vars

(***************************************************************************)
(* The functions of plain numbers, applied to inputs from bounded sets.    *)
(***************************************************************************)
Scores == -5..105
RoundValues ==
    {k * 50000 : k \in -3..9} \cup {149999, 150001, 3600000}
        \cup {36 * m : m \in {12500, 50000}}

FnInit ==
    /\ customers = <<>>
    /\ loans = <<>>
    /\ today = 0
    /\ customer_file = None
    /\ loan_file = None
    /\ queue = 0
    /\ task = [w \in Workers |-> IdleTask]
    /\ last_pass = None
    /\ resp = NoResp

ApplyMinimumRate(score) ==
    /\ resp' = [op |-> "minimum_rate_for_score", score |-> score,
                rate |-> minimum_rate_for_score(score)]
    /\ UNCHANGED <<customers, loans, today, customer_file, loan_file, queue, task,
                   last_pass>>

ApplyRoundToLakh(value) ==
    /\ resp' = [op |-> "round_to_lakh", value |-> value,
                result |-> round_to_lakh(value)]
    /\ UNCHANGED <<customers, loans, today, customer_file, loan_file, queue, task,
                   last_pass>>

FnNext ==
    \/ \E score \in Scores : ApplyMinimumRate(score)
    \/ \E value \in RoundValues : ApplyRoundToLakh(value)

SpecFn == FnInit /\ [][FnNext]_vars

(***************************************************************************)
(* Properties of the engine (checked under SpecEngine).                    *)
(***************************************************************************)
IsEvaluation == resp.op = "evaluate_eligibility"
IsScore == resp.op = "compute_credit_score"

\* the minimum rate the description gives each score tier above the reject tier
TierMinimum(score) ==
    IF score > 50 THEN F(0) ELSE IF score > 30 THEN F(12) ELSE F(16)

\* (c): current installments plus the new EMI at the reported corrected rate stay
\* within half the monthly salary
WithinEmiLimit ==
    ~FLt(FMul(Q(1, 2), F(customers[resp.customer].monthly_salary)),
         FAdd(get_current_emi_sum(resp.customer),
              calculate_emi(resp.loan_amount, resp.result.corrected_rate,
                            resp.tenure)))

EmiComputable ==
    ~EmiRaises(resp.loan_amount, resp.result.corrected_rate, resp.tenure)

\* C1 as stated: a returned evaluation is approved if and only if (a) the score is
\* above 10, (b) the requested rate is not below the minimum rate of the score's
\* tier and (c) the monthly commitments stay within half the salary.
C1_ApprovedIffThree ==
    IsEvaluation /\ ~resp.result.raised =>
        (resp.result.approved <=>
            /\ resp.result.score > 10
            /\ ~FLt(resp.interest_rate, TierMinimum(resp.result.score))
            /\ WithinEmiLimit)

\* C1 (amended): an evaluation returns approved = true if and only if (a) the score
\* is above 10, (b) the requested rate is not below a positive tier minimum (12 or
\* 16; the tier of scores above 50 enforces no floor, so a negative rate passes)
\* and (c) the new EMI is computed and the monthly commitments at the corrected
\* rate stay within half the salary.
C1_ApprovedIffAmended ==
    IsEvaluation =>
        ((~resp.result.raised /\ resp.result.approved) <=>
            /\ resp.result.score > 10
            /\ ~(/\ FLt(F(0), TierMinimum(resp.result.score))
                 /\ FLt(resp.interest_rate, TierMinimum(resp.result.score)))
            /\ EmiComputable
            /\ WithinEmiLimit)

\* an approval in a tier with a positive minimum, on top of running installments
C1_Witness ==
    /\ IsEvaluation
    /\ resp.result.approved
    /\ resp.result.score \in 11..50
    /\ FLt(F(0), get_current_emi_sum(resp.customer))

\* C2: a request below the positive minimum of its tier (score in 11..50) is
\* rejected and reports the tier minimum as corrected rate, whether or not the
\* EMI-limit check passes.
C2_BelowMinimumRejected ==
    /\ IsEvaluation
    /\ resp.result.score \in 11..50
    /\ FLt(resp.interest_rate, TierMinimum(resp.result.score))
    => /\ ~resp.result.raised
       /\ ~resp.result.approved
       /\ resp.result.corrected_rate = TierMinimum(resp.result.score)

\* such a request whose EMI-limit check passes at the corrected rate
C2_Witness ==
    /\ IsEvaluation
    /\ resp.result.score \in 11..50
    /\ FLt(resp.interest_rate, TierMinimum(resp.result.score))
    /\ WithinEmiLimit
    /\ ~resp.result.approved
    /\ resp.result.corrected_rate # resp.interest_rate

\* C3 as stated: compute_credit_score returns an integer in 0..100 for every
\* loan history the storage accepts.
C3_ScoreInRange == IsScore => resp.score \in 0..100

\* C4 as stated: evaluate_eligibility never raises, whatever the numeric request.
C4_NeverRaises == IsEvaluation => ~resp.result.raised

\* C6: a customer whose current outstanding debt exceeds the approved limit
\* scores 0, whatever the rest of the history.
C6_OverLimitScoresZero ==
    /\ IsScore
    /\ FLt(F(customers[resp.customer].approved_limit),
           get_current_debt_sum(resp.customer))
    => resp.score = 0

\* an over-limit customer with installments paid on time
C6_Witness ==
    /\ IsScore
    /\ FLt(F(customers[resp.customer].approved_limit),
           get_current_debt_sum(resp.customer))
    /\ \E l \in LoansOf(resp.customer) : loans[l].emis_paid_on_time > 0
    /\ resp.score = 0

\* C7: a customer without loan records scores 0, whatever salary and limit.
C7_NoLoansScoresZero ==
    IsScore /\ LoansOf(resp.customer) = {} => resp.score = 0

C7_Witness ==
    /\ IsScore
    /\ LoansOf(resp.customer) = {}
    /\ customers[resp.customer].approved_limit > 0
    /\ resp.score = 0

(***************************************************************************)
(* Properties of the functions of plain numbers (checked under SpecFn).    *)
(***************************************************************************)
\* the nearest multiple of 100,000, a value halfway between two going up
RoundHalfUp(value) == ((2 * value + LAKH) \div (2 * LAKH)) * LAKH

\* C5 as stated: round_to_lakh rounds to the nearest multiple of 100,000 and
\* every tie (50,000 + k * 100,000) goes up to the higher multiple.
C5_RoundsHalfUp ==
    resp.op = "round_to_lakh" => resp.result = RoundHalfUp(resp.value)

\* C8: minimum_rate_for_score maps every integer score to exactly one tier:
\* above 50 to 0.0, 31..50 to 12.0, 11..30 to 16.0, 10 and below to None.
C8_TierOfScore ==
    resp.op = "minimum_rate_for_score" =>
        /\ resp.score > 50 => resp.rate = Some(F(0))
        /\ resp.score \in 31..50 => resp.rate = Some(F(12))
        /\ resp.score \in 11..30 => resp.rate = Some(F(16))
        /\ resp.score <= 10 => resp.rate = None
        /\ resp.score = 51 => resp.rate = Some(F(0))
        /\ resp.score \in {50, 31} => resp.rate = Some(F(12))
        /\ resp.score \in {30, 11} => resp.rate = Some(F(16))
        /\ resp.score = 10 => resp.rate = None

\* the boundary score 50 mapped to the 12.0 tier
C8_Witness ==
    /\ resp.op = "minimum_rate_for_score"
    /\ resp.score = 50
    /\ resp.rate = Some(F(12))

(***************************************************************************)
(* Properties of the service (checked under Spec).                         *)
(***************************************************************************)
\* C9: an approved create_loan persists exactly one new loan of the customer with
\* start_date = today, end_date = today + tenure months and emis_paid_on_time = 0,
\* and leaves the customer's cached current_debt equal to the integer-truncated
\* sum of principal of the customer's current loans in the table holding the new
\* loan; a create_loan that is not approved persists nothing and leaves the
\* cached debts as they were.
C9_CreateLoanStep(c, t) ==
    IF resp'.status = 201
    THEN /\ resp'.loan_approved
         /\ \E id \in DOMAIN loans' \ DOMAIN loans :
              /\ resp'.loan_id = Some(id)
              /\ DOMAIN loans' = DOMAIN loans \cup {id}
              /\ \A l \in DOMAIN loans : loans'[l] = loans[l]
              /\ loans'[id].customer = c
              /\ loans'[id].start_date = Some(today)
              /\ loans'[id].end_date = Some(today + t)
              /\ loans'[id].emis_paid_on_time = 0
         /\ \A k \in DOMAIN customers \ {c} : customers'[k] = customers[k]
         /\ customers'[c].current_debt = FInt(DebtSum(loans', today, c))
    ELSE /\ loans' = loans
         /\ customers' = customers

Rerun(w) ==
    /\ task[w].pc = "reconcile"
    /\ task[w].todo = {}
    /\ CleanPass(w)
    /\ last_pass # None
    /\ last_pass[1].clean
    /\ last_pass[1].loans = loans
    /\ last_pass[1].today = today

\* C10 as stated: a second reconciliation pass over unchanged loans on the same
\* day leaves every cached current_debt unchanged, and that value equals the sum
\* of principal of the customer's current loans.
C10_RerunKeepsExactSum ==
    \A w \in DOMAIN task :
        Rerun(w) =>
            /\ \A c \in DOMAIN last_pass[1].debts :
                 customers[c].current_debt = last_pass[1].debts[c]
            /\ \A c \in DOMAIN customers :
                 F(customers[c].current_debt) = DebtSum(loans, today, c)

\* C10 (amended): a second reconciliation pass over unchanged loans on the same
\* day leaves every cached current_debt unchanged, and that value equals the
\* integer-truncated sum of principal of the customer's current loans.
C10_RerunKeepsTruncatedSum ==
    \A w \in DOMAIN task :
        Rerun(w) =>
            /\ \A c \in DOMAIN last_pass[1].debts :
                 customers[c].current_debt = last_pass[1].debts[c]
            /\ \A c \in DOMAIN customers :
                 customers[c].current_debt = FInt(DebtSum(loans, today, c))

\* a finished second pass over a customer with current loans
C10_Witness ==
    \E w \in DOMAIN task :
        /\ Rerun(w)
        /\ \E c \in DOMAIN last_pass[1].debts :
             /\ get_current_loans(c) # {}
             /\ customers[c].current_debt = last_pass[1].debts[c]
             /\ customers[c].current_debt # 0

(***************************************************************************)
(* Properties of ingestion on a worker pool (checked under SpecPool).      *)
(***************************************************************************)
\* the executions of ingest_initial_data that have started and not returned
InFlight == {w \in DOMAIN task : task[w].pc # "idle"}

\* C11 as stated: at most one ingestion job is in flight at any time, so two
\* executions of the task never overlap.
C11_AtMostOneInFlight == Cardinality(InFlight) <= 1

(***************************************************************************)
(* More properties of the service (checked under Spec).                    *)
(***************************************************************************)
\* C12 as stated: in every reachable state every persisted loan has tenure >= 0;
\* create_loan never persists a loan whose requested tenure is negative.
C12_TenureNonNegative == \A l \in DOMAIN loans : loans[l].tenure >= 0

(***************************************************************************)
(* Properties of the engine over a stale cache (checked under SpecCache).  *)
(***************************************************************************)
\* C13: compute_credit_score and evaluate_eligibility do not depend on the cached
\* current_debt: the result of a call equals the result of the same call in the
\* state that differs from the call's state only in the cached current_debt.
C13_CacheNotTrusted ==
    /\ IsScore => resp.score = compute_credit_score(resp.customer)
    /\ IsEvaluation =>
         resp.result = evaluate_eligibility(resp.customer, resp.loan_amount,
                                            resp.interest_rate, resp.tenure)

\* an approval granted over a cache of 0, compared in the state whose cache is
\* above the approved limit while the loan records are within it
C13_Witness ==
    /\ IsEvaluation
    /\ resp.result.approved
    /\ get_current_loans(resp.customer) # {}
    /\ customers[resp.customer].current_debt > customers[resp.customer].approved_limit
    /\ FInt(DebtSum(loans, today, resp.customer)) <=
         customers[resp.customer].approved_limit

====
